---- MODULE Spec2Model ----
(***************************************************************************)
(* Model of tools/checkteamtags/extract_components.py: main, display_stat  *)
(* and write_results, together with the directory walk of                  *)
(* owners_file_tags.aggregate_components_from_owners that main calls.      *)
(*                                                                         *)
(* Python values are modelled as follows.  An optional value (None or a    *)
(* value v) is the sequence <<>> or <<v>>.  A dict is a function whose     *)
(* domain is its key set.  A list is a sequence.  Standard output is the   *)
(* sequence of the lines printed so far, each a record with a "kind".      *)
(***************************************************************************)
EXTENDS Integers, Sequences, FiniteSets, TLC

VARIABLES
  options,                \* optparse.Values of the run
  tree,                   \* the directory tree under root (the OWNERS files)
  pc,                     \* position in main
  stack,                  \* the walk's inheritance stack, innermost last
  visited,                \* directories the walk has entered
  resolved,               \* directory -> resolved (team, component)
  component_to_team,      \* the walk's accumulator: component -> set of teams
  stats,                  \* the coverage counters
  warnings,               \* accumulated warnings
  errors,                 \* accumulated errors
  mappings,               \* the dict main receives and then extends
  mapping_file_contents,  \* json.dumps(mappings, sort_keys=True), optional
  stdout,                 \* lines printed so far
  files,                  \* file name -> optional contents
  ret,                    \* main's return value, optional
  exit_code,              \* the process exit status, optional
  run,                    \* 1 for the first run, 2 for a repeated run
  prev                    \* what the previous run left behind, optional

vars == <<options, tree, pc, stack, visited, resolved, component_to_team, stats,
          warnings, errors, mappings, mapping_file_contents, stdout, files,
          ret, exit_code, run, prev>>

\* ------------------------------------------------------------------ bounds

\* Most directories that hold an OWNERS file, in the trees of SpecTree.
MaxFilesTree == 3
\* Most directories that hold an OWNERS file, in the trees of SpecStat.
MaxFilesStat == 3
\* Most directories that hold an OWNERS file, in the trees of SpecMain.
MaxFilesMain == 2
\* Largest -s value tried.
MaxStatCoverage == 3
\* Longest chain of nested directories tried in SpecExit.
MaxChain == 256

\* ------------------------------------------------------------ Python values

None == <<>>
Some(v) == <<v>>
Val(o) == o[1]

\* Truth value of an optional string (None and '' are false).
TruthyStr(o) == o # <<>> /\ o[1] # ""
\* Truth value of an optional integer (None and 0 are false).
TruthyInt(o) == o # <<>> /\ o[1] # 0
\* Truth value of an optional flag set by action='store_true' (None or True).
TruthyFlag(o) == o # <<>> /\ o[1]

\* The strings of the model in Python 2's str order (byte-wise).
StrOrder == <<"AAA-README", "Blink", "Tools>Test", "a@x.com", "b@x.com">>
StrRank(s) == CHOOSE i \in 1..Len(StrOrder) : StrOrder[i] = s
StrLess(a, b) == StrRank(a) < StrRank(b)

RECURSIVE SortedSeq(_)
\* sorted(S) for a set S of strings.
SortedSeq(S) ==
  IF S = {} THEN <<>>
  ELSE LET m == CHOOSE x \in S : \A y \in S : x = y \/ StrLess(x, y)
       IN <<m>> \o SortedSeq(S \ {m})

RECURSIVE SumSeq(_)
SumSeq(s) == IF s = <<>> THEN 0 ELSE s[1] + SumSeq(Tail(s))

Range(s) == {s[i] : i \in DOMAIN s}

\* ---------------------------------------------------------------- the tree

Teams == {"a@x.com", "b@x.com"}
Components == {"Blink", "Tools>Test"}
\* An absent tag.
NoTag == ""
\* A TEAM value that is no email address.
BadTeam == "not-an-email"

\* A directory without an OWNERS file.
NoFile == [present |-> FALSE, team |-> NoTag, component |-> NoTag, nearMiss |-> FALSE]

FileKinds(teamVals, compVals, nearVals) ==
  [present : {TRUE}, team : teamVals, component : compVals, nearMiss : nearVals]

\* root (1) holds directories 2 and 3, and directory 2 holds directory 4.
BranchParent == <<0, 1, 1, 2>>
ChainParent(n) == [d \in 1..n |-> d - 1]

\* The trees of shape `parent` with at most maxFiles OWNERS files of the kinds.
TreeSet(parent, kinds, maxFiles) ==
  { [parent |-> parent, file |-> f] :
      f \in { g \in [DOMAIN parent -> kinds \cup {NoFile}] :
                Cardinality({d \in DOMAIN parent : g[d].present}) <= maxFiles } }

Dirs(t) == DOMAIN t.parent
Children(t, d) == {c \in Dirs(t) : t.parent[c] = d}

\* ------------------------------------------------- the walk (aggregator)

\* The keys of the stats dict.
K_COUNT == "OWNERS-count"
K_COMP == "OWNERS-with-component-only-count"
K_TEAM_COMP == "OWNERS-with-team-and-component-count"
K_COUNT_D == "OWNERS-count-by-depth"
K_COMP_D == "OWNERS-with-component-only-count-by-depth"
K_TEAM_COMP_D == "OWNERS-with-team-and-component-count-by-depth"

EmptyStats ==
  (K_COUNT :> 0) @@ (K_COMP :> 0) @@ (K_TEAM_COMP :> 0) @@
  (K_COUNT_D :> <<>>) @@ (K_COMP_D :> <<>>) @@ (K_TEAM_COMP_D :> <<>>)

\* A per-depth list grown with zeros to hold index depth, then counted up by n.
BumpAt(s, depth, n) ==
  [i \in 1..(IF Len(s) > depth THEN Len(s) ELSE depth + 1) |->
     (IF i <= Len(s) THEN s[i] ELSE 0) + (IF i = depth + 1 THEN n ELSE 0)]

\* A TEAM value is accepted when it looks like an email address.
ValidTeam(v) == v \in Teams
\* The tags a file declares; a malformed value is reported and not used.
OwnTags(f) ==
  [team |-> IF f.present /\ ValidTeam(f.team) THEN f.team ELSE NoTag,
   component |-> IF f.present THEN f.component ELSE NoTag]

\* Resolve with a directory that declares any tag inheriting nothing.
ResolveWhole(inherited, own) ==
  IF own.team # NoTag \/ own.component # NoTag THEN own ELSE inherited

\* resolved.team = own.team or inherited.team, and likewise for component.
Resolve(inherited, own) ==
  [team |-> IF own.team # NoTag THEN own.team ELSE inherited.team,
   component |-> IF own.component # NoTag THEN own.component ELSE inherited.component]

NothingInherited == [team |-> NoTag, component |-> NoTag]

\* The counters after one more OWNERS file at `depth` resolving to `res`.
CountFile(st, depth, res) ==
  LET comp_only == IF res.component # NoTag /\ res.team = NoTag THEN 1 ELSE 0
      both == IF res.component # NoTag /\ res.team # NoTag THEN 1 ELSE 0
  IN (K_COUNT :> st[K_COUNT] + 1) @@
     (K_COMP :> st[K_COMP] + comp_only) @@
     (K_TEAM_COMP :> st[K_TEAM_COMP] + both) @@
     (K_COUNT_D :> BumpAt(st[K_COUNT_D], depth, 1)) @@
     (K_COMP_D :> BumpAt(st[K_COMP_D], depth, comp_only)) @@
     (K_TEAM_COMP_D :> BumpAt(st[K_TEAM_COMP_D], depth, both))

\* The accumulator with team added to the set of component.
AddTeam(m, component, team) ==
  IF component \in DOMAIN m
  THEN [m EXCEPT ![component] = @ \cup {team}]
  ELSE m @@ (component :> {team})

\* The list a component's team set is returned as.
TeamList(S) == SortedSeq(S)

\* The mapping the aggregator returns.
Finalize(m) == [c \in DOMAIN m |-> TeamList(m[c])]

\* The walk enters directory d, a child of the directory it is in (root first).
Enter(d) ==
  /\ pc = "aggregate"
  /\ d \in Dirs(tree) \ visited
  /\ tree.parent[d] = (IF stack = <<>> THEN 0 ELSE stack[Len(stack)].dir)
  /\ LET inherited == IF stack = <<>> THEN NothingInherited
                      ELSE stack[Len(stack)].state
         f == tree.file[d]
         res == Resolve(inherited, OwnTags(f))
         depth == Len(stack)
     IN /\ stack' = Append(stack, [dir |-> d, state |-> res])
        /\ resolved' = resolved @@ (d :> res)
        /\ visited' = visited \cup {d}
        /\ stats' = IF f.present THEN CountFile(stats, depth, res) ELSE stats
        /\ component_to_team' =
             IF f.present /\ res.component # NoTag /\ res.team # NoTag
             THEN AddTeam(component_to_team, res.component, res.team)
             ELSE component_to_team
        /\ errors' = IF f.present /\ f.team # NoTag /\ ~ValidTeam(f.team)
                     THEN Append(errors, [kind |-> "error", dir |-> d])
                     ELSE errors
        /\ warnings' = IF f.present /\ f.nearMiss
                       THEN Append(warnings, [kind |-> "warning", dir |-> d])
                       ELSE warnings
  /\ UNCHANGED <<options, tree, pc, mappings, mapping_file_contents, stdout,
                 files, ret, exit_code, run, prev>>

\* The walk leaves the directory it is in once every child has been entered.
Leave ==
  /\ pc = "aggregate"
  /\ stack # <<>>
  /\ Children(tree, stack[Len(stack)].dir) \subseteq visited
  /\ stack' = SubSeq(stack, 1, Len(stack) - 1)
  /\ UNCHANGED <<options, tree, pc, visited, resolved, component_to_team, stats,
                 warnings, errors, mappings, mapping_file_contents, stdout,
                 files, ret, exit_code, run, prev>>

\* aggregate_components_from_owners returns (mappings, warnings, errors, stats).
Aggregated ==
  /\ pc = "aggregate"
  /\ stack = <<>>
  /\ visited = Dirs(tree)
  /\ mappings' = Finalize(component_to_team)
  /\ pc' = "warnings"
  /\ UNCHANGED <<options, tree, stack, visited, resolved, component_to_team,
                 stats, warnings, errors, mapping_file_contents, stdout, files,
                 ret, exit_code, run, prev>>

\* ------------------------------------------------------------ display_stat

\* Format2f with 100 for 100.0: Python 2's integer division drops the decimals.
Format2fIntDiv(count, total) == 100 * ((100 * count) \div total)

\* "{0:.2f}".format(100.0 * count / total) as a number of hundredths: the
\* quotient rounded to two decimals, an exact tie going to the even neighbour.
Format2f(count, total) ==
  LET q == (10000 * count) \div total
      r == (10000 * count) % total
  IN IF 2 * r > total \/ (2 * r = total /\ q % 2 = 1) THEN q + 1 ELSE q

\* The percentage display_stat prints: "N/A" unless total > 0.
PctText(count, total) ==
  IF total > 0 THEN [na |-> FALSE, hundredths |-> Format2f(count, total)]
  ELSE [na |-> TRUE, hundredths |-> 0]

\* The three overall lines, and the "Under directory" line.
OverallLines(st) ==
  << [kind |-> "stat_total", n |-> st[K_COUNT]],
     [kind |-> "stat_component", n |-> st[K_COMP],
      pct |-> PctText(st[K_COMP], st[K_COUNT])],
     [kind |-> "stat_team_component", n |-> st[K_TEAM_COMP],
      pct |-> PctText(st[K_TEAM_COMP], st[K_COUNT])],
     [kind |-> "stat_under"] >>

\* NumOutputDepth taking the limit as the last depth to print.
NumOutputDepthInclusive(st, opts) ==
  IF opts.stat_coverage # None /\ Val(opts.stat_coverage) > 0
     /\ Val(opts.stat_coverage) < Len(st[K_COUNT_D])
  THEN Val(opts.stat_coverage) + 1
  ELSE Len(st[K_COUNT_D])

\* NumOutputDepth without the comparison with the number of depths (line 94).
NumOutputDepthUnchecked(st, opts) ==
  IF opts.stat_coverage # None /\ Val(opts.stat_coverage) > 0
  THEN Val(opts.stat_coverage)
  ELSE Len(st[K_COUNT_D])

\* Number of depths to display: every depth, or stat_coverage when it is
\* positive and smaller (None > 0 is false in Python 2).
NumOutputDepth(st, opts) ==
  IF opts.stat_coverage # None /\ Val(opts.stat_coverage) > 0
     /\ Val(opts.stat_coverage) < Len(st[K_COUNT_D])
  THEN Val(opts.stat_coverage)
  ELSE Len(st[K_COUNT_D])

\* Whether the loop body can read index depth of the three per-depth lists.
DepthReadable(st, depth) ==
  /\ depth < Len(st[K_COUNT_D])
  /\ depth < Len(st[K_COMP_D])
  /\ depth < Len(st[K_TEAM_COMP_D])

\* The three lines of one depth.
DepthLines(st, depth) ==
  LET total == st[K_COUNT_D][depth + 1]
      comp == st[K_COMP_D][depth + 1]
      both == st[K_TEAM_COMP_D][depth + 1]
  IN << [kind |-> "stat_depth_total", depth |-> depth, n |-> total],
        [kind |-> "stat_depth_component", depth |-> depth, n |-> comp,
         pct |-> PctText(comp, total)],
        [kind |-> "stat_depth_team_component", depth |-> depth, n |-> both,
         pct |-> PctText(both, total)] >>

RECURSIVE DepthLoop(_, _, _)
\* for depth in range(depth, n): the lines printed, and whether the loop ended
\* normally (an index out of range raises IndexError and ends the run).
DepthLoop(st, depth, n) ==
  IF depth >= n THEN [lines |-> <<>>, ok |-> TRUE]
  ELSE IF ~DepthReadable(st, depth) THEN [lines |-> <<>>, ok |-> FALSE]
  ELSE LET rest == DepthLoop(st, depth + 1, n)
       IN [lines |-> DepthLines(st, depth) \o rest.lines, ok |-> rest.ok]

\* display_stat(stats, root, options): what it prints and whether it returns.
display_stat(st, opts) ==
  LET loop == DepthLoop(st, 0, NumOutputDepth(st, opts))
  IN [lines |-> OverallLines(st) \o loop.lines, ok |-> loop.ok]

\* ------------------------------------------------------------------- main

README_KEY == "AAA-README"
\* The notice, split into lines (its backquotes are written as quotes here).
_README ==
  << "",
     "This file is generated by src/tools/checkteamtags/extract_components.py",
     "by parsing the contents of OWNERS files throughout the chromium source code and",
     "extracting '# TEAM:' and '# COMPONENT:' tags.",
     "",
     "Manual edits of this file will be overwritten by an automated process." >>

DEFAULT_FILE == "component_map.json"
FileNames == {DEFAULT_FILE, "out.json"}

\* PutReadme as "mappings = {'AAA-README': _README}" would do it.
PutReadmeOnly(m) == [k \in {README_KEY} |-> _README]

\* mappings['AAA-README'] = _README
PutReadme(m) ==
  [k \in DOMAIN m \cup {README_KEY} |-> IF k = README_KEY THEN _README ELSE m[k]]

RECURSIVE Reverse(_)
Reverse(q) == IF q = <<>> THEN <<>> ELSE Append(Reverse(Tail(q)), Head(q))
\* KeyOrder without sort_keys: some other order of the keys.
KeyOrderUnsorted(m) == Reverse(SortedSeq(DOMAIN m))

\* The keys in the order json.dumps(..., sort_keys=True) emits them.
KeyOrder(m) == SortedSeq(DOMAIN m)

\* json.dumps(m, sort_keys=True, indent=2): the members in key order, each
\* value list in its own order.
JsonDumps(m) ==
  LET ks == KeyOrder(m) IN [i \in 1..Len(ks) |-> <<ks[i], m[ks[i]]>>]

\* write_results(filename, data)
write_results(fs, filename, data) ==
  LET name == IF ~TruthyStr(filename) THEN DEFAULT_FILE ELSE Val(filename)
  IN [fs EXCEPT ![name] = Some(data)]

\* options.write or options.output_file
WriteRequested(opts) == TruthyFlag(opts.write) \/ TruthyStr(opts.output_file)

\* The lines printed for the warnings (lines 163-165).
WarningLines(opts, ws) == IF TruthyFlag(opts.verbose) THEN ws ELSE <<>>

\* The lines printed for the errors (lines 167-168).
ErrorLines(es) == es

\* Whether display_stat is called (line 170).
StatRequested(opts) ==
  TruthyInt(opts.stat_coverage) \/ TruthyFlag(opts.complete_coverage)

\* OutputLines printing the mapping after the file was written as well.
OutputLinesAlways(opts, es, contents) ==
  IF WriteRequested(opts) /\ es # <<>>
  THEN <<[kind |-> "notice"]>> \o
       (IF TruthyFlag(opts.force_print)
        THEN <<[kind |-> "mapping", json |-> contents]>> ELSE <<>>)
  ELSE <<[kind |-> "mapping", json |-> contents]>>

\* What lines 175-183 print, given the serialized mapping.
OutputLines(opts, es, contents) ==
  IF WriteRequested(opts)
  THEN IF es # <<>>
       THEN <<[kind |-> "notice"]>> \o
            (IF TruthyFlag(opts.force_print)
             THEN <<[kind |-> "mapping", json |-> contents]>> ELSE <<>>)
       ELSE <<>>
  ELSE <<[kind |-> "mapping", json |-> contents]>>

\* OutputFiles without the test of the error list (line 176).
OutputFilesDespiteErrors(opts, es, fs, contents) ==
  IF WriteRequested(opts) THEN write_results(fs, opts.output_file, contents) ELSE fs

\* What lines 175-183 leave in the file system.
OutputFiles(opts, es, fs, contents) ==
  IF WriteRequested(opts) /\ es = <<>>
  THEN write_results(fs, opts.output_file, contents)
  ELSE fs

\* ReturnValue counting the warnings as well.
ReturnValueWithWarnings(es) == Len(es) + Len(warnings)

\* main's return value (line 185).
ReturnValue(es) == Len(es)

\* The exit status the parent process sees after sys.exit(n): the low 8 bits.
ExitStatus(n) == n % 256

PrintWarnings ==
  /\ pc = "warnings"
  /\ stdout' = stdout \o WarningLines(options, warnings)
  /\ pc' = "errors"
  /\ UNCHANGED <<options, tree, stack, visited, resolved, component_to_team,
                 stats, warnings, errors, mappings, mapping_file_contents,
                 files, ret, exit_code, run, prev>>

PrintErrors ==
  /\ pc = "errors"
  /\ stdout' = stdout \o ErrorLines(errors)
  /\ pc' = "stat"
  /\ UNCHANGED <<options, tree, stack, visited, resolved, component_to_team,
                 stats, warnings, errors, mappings, mapping_file_contents,
                 files, ret, exit_code, run, prev>>

DisplayStat ==
  /\ pc = "stat"
  /\ LET out == IF StatRequested(options) THEN display_stat(stats, options)
                ELSE [lines |-> <<>>, ok |-> TRUE]
     IN /\ stdout' = stdout \o out.lines
        /\ pc' = IF out.ok THEN "dump" ELSE "crashed"
  /\ UNCHANGED <<options, tree, stack, visited, resolved, component_to_team,
                 stats, warnings, errors, mappings, mapping_file_contents,
                 files, ret, exit_code, run, prev>>

Dump ==
  /\ pc = "dump"
  /\ mappings' = PutReadme(mappings)
  /\ mapping_file_contents' = Some(JsonDumps(mappings'))
  /\ pc' = "output"
  /\ UNCHANGED <<options, tree, stack, visited, resolved, component_to_team,
                 stats, warnings, errors, stdout, files, ret, exit_code, run,
                 prev>>

Output ==
  /\ pc = "output"
  /\ stdout' = stdout \o OutputLines(options, errors, Val(mapping_file_contents))
  /\ files' = OutputFiles(options, errors, files, Val(mapping_file_contents))
  /\ pc' = "return"
  /\ UNCHANGED <<options, tree, stack, visited, resolved, component_to_team,
                 stats, warnings, errors, mappings, mapping_file_contents,
                 ret, exit_code, run, prev>>

Return ==
  /\ pc = "return"
  /\ ret' = Some(ReturnValue(errors))
  /\ pc' = "exit"
  /\ UNCHANGED <<options, tree, stack, visited, resolved, component_to_team,
                 stats, warnings, errors, mappings, mapping_file_contents,
                 stdout, files, exit_code, run, prev>>

SysExit ==
  /\ pc = "exit"
  /\ exit_code' = Some(ExitStatus(Val(ret)))
  /\ pc' = "done"
  /\ UNCHANGED <<options, tree, stack, visited, resolved, component_to_team,
                 stats, warnings, errors, mappings, mapping_file_contents,
                 stdout, files, ret, run, prev>>

\* ------------------------------------------------------------- a second run

\* What a finished run leaves behind for its caller.
Outcome ==
  [exit_code |-> exit_code, files |-> files, json |-> mapping_file_contents]

\* The warning lines on standard output.
PrintedWarnings == SelectSeq(stdout, LAMBDA l : l.kind = "warning")

\* The tree with every near-miss tag line written as `near` says.
WithNearMiss(t, near) ==
  [t EXCEPT !.file = [d \in DOMAIN t.file |->
     IF t.file[d].present THEN [t.file[d] EXCEPT !.nearMiss = near] ELSE t.file[d]]]

\* The tool is run again on the same tree with the same options, except for
\* the verbose flag and the near-miss lines (the source of warnings).
Rerun ==
  /\ pc = "done"
  /\ run = 1
  /\ prev' = Some([outcome |-> Outcome, warned |-> Len(PrintedWarnings)])
  /\ run' = 2
  /\ \E v \in {None, Some(TRUE)} : options' = [options EXCEPT !.verbose = v]
  /\ \E t \in {tree, WithNearMiss(tree, FALSE), WithNearMiss(tree, TRUE)} : tree' = t
  /\ pc' = "aggregate"
  /\ stack' = <<>>
  /\ visited' = {}
  /\ resolved' = <<>>
  /\ component_to_team' = <<>>
  /\ stats' = EmptyStats
  /\ warnings' = <<>>
  /\ errors' = <<>>
  /\ mappings' = <<>>
  /\ mapping_file_contents' = None
  /\ stdout' = <<>>
  /\ files' = [n \in FileNames |-> None]
  /\ ret' = None
  /\ exit_code' = None

\* ---------------------------------------------------------- specifications

Flag == {None, Some(TRUE)}

InitWith(optionSet, treeSet) ==
  /\ options \in optionSet
  /\ tree \in treeSet
  /\ pc = "aggregate"
  /\ stack = <<>>
  /\ visited = {}
  /\ resolved = <<>>
  /\ component_to_team = <<>>
  /\ stats = EmptyStats
  /\ warnings = <<>>
  /\ errors = <<>>
  /\ mappings = <<>>
  /\ mapping_file_contents = None
  /\ stdout = <<>>
  /\ files = [n \in FileNames |-> None]
  /\ ret = None
  /\ exit_code = None
  /\ run = 1
  /\ prev = None

Next ==
  \/ \E d \in Dirs(tree) : Enter(d)
  \/ Leave
  \/ Aggregated
  \/ PrintWarnings
  \/ PrintErrors
  \/ DisplayStat
  \/ Dump
  \/ Output
  \/ Return
  \/ SysExit

NextTwice == Next \/ Rerun

\* Well-formed trees of two teams and two components; coverage requested.
TreeOptions ==
  [write : {None}, verbose : {Some(TRUE)}, force_print : {None},
   output_file : {None}, complete_coverage : {Some(TRUE)}, stat_coverage : {None}]
TreeTrees ==
  TreeSet(BranchParent, FileKinds(Teams \cup {NoTag}, Components \cup {NoTag}, {FALSE}),
          MaxFilesTree)
InitTree == InitWith(TreeOptions, TreeTrees)
SpecTree == InitTree /\ [][Next]_vars

\* Every -c and -s combination over trees of one team and one component.
StatOptions ==
  [write : {None}, verbose : {None}, force_print : {None}, output_file : {None},
   complete_coverage : Flag,
   stat_coverage : {None} \cup {Some(n) : n \in -1..MaxStatCoverage}]
StatTrees ==
  TreeSet(BranchParent, FileKinds({NoTag, "a@x.com"}, {NoTag, "Blink"}, {FALSE}),
          MaxFilesStat)
InitStat == InitWith(StatOptions, StatTrees)
SpecStat == InitStat /\ [][Next]_vars

\* Every -w, -o, -f and -v combination, without coverage, with -c or with
\* -s 1, over trees with and without errors and warnings; each run may be
\* followed by a second one.
MainOptions ==
  { o \in [write : Flag, verbose : Flag, force_print : Flag,
           output_file : {None, Some(""), Some("out.json")},
           complete_coverage : Flag, stat_coverage : {None, Some(1)}] :
      o.complete_coverage = None \/ o.stat_coverage = None }
MainTrees ==
  TreeSet(BranchParent, FileKinds({"a@x.com", BadTeam}, {"Blink"}, BOOLEAN),
          MaxFilesMain)
InitMain == InitWith(MainOptions, MainTrees)
SpecMain == InitMain /\ [][NextTwice]_vars

\* Chains of nested directories whose OWNERS files all hold a malformed TEAM.
ChainTree(n) ==
  [parent |-> ChainParent(n),
   file |-> [d \in 1..n |-> [present |-> TRUE, team |-> BadTeam,
                             component |-> "Blink", nearMiss |-> FALSE]]]
ExitOptions ==
  [write : Flag, verbose : {None}, force_print : {None}, output_file : {None},
   complete_coverage : {None}, stat_coverage : {None}]
ExitTrees == {ChainTree(n) : n \in {1, 2, MaxChain - 1, MaxChain}}
InitExit == InitWith(ExitOptions, ExitTrees)
SpecExit == InitExit /\ [][Next]_vars

\* ------------------------------------------------------------ properties

AfterAggregate == pc \in {"warnings", "errors", "stat", "dump", "output", "return", "exit", "done"}
AfterWarnings == pc \in {"errors", "stat", "dump", "output", "return", "exit", "done"}
AfterErrors == pc \in {"stat", "dump", "output", "return", "exit", "done"}
AfterStat == pc \in {"dump", "output", "return", "exit", "done"}
AfterDump == pc \in {"output", "return", "exit", "done"}
AfterOutput == pc \in {"return", "exit", "done"}

LinesOf(kinds) == SelectSeq(stdout, LAMBDA l : l.kind \in kinds)
MappingPrinted == LinesOf({"mapping"}) # <<>>
FileWritten == \E n \in FileNames : files[n] # None
HasErrors == errors # <<>>

\* C1: the mapping is written to a file only if writing was requested and no
\* error was accumulated; when writing was requested and there are errors, no
\* file is written and the mapping is still output exactly when force_print is
\* set.
C1_WriteGatedOnErrors ==
  /\ FileWritten => (WriteRequested(options) /\ ~HasErrors /\ AfterOutput)
  /\ (AfterOutput /\ WriteRequested(options) /\ HasErrors) =>
       /\ ~FileWritten
       /\ MappingPrinted <=> TruthyFlag(options.force_print)

C1_Witness ==
  /\ pc = "done"
  /\ options.write = None
  /\ options.output_file = Some("out.json")
  /\ TruthyFlag(options.force_print)
  /\ Len(errors) = 2
  /\ MappingPrinted
  /\ ~FileWritten

\* C2: the process exit code equals the number of accumulated errors, and so
\* is 0 exactly when no error was accumulated.
C2_ExitCodeIsErrorCount ==
  pc = "done" =>
    /\ Val(exit_code) = Len(errors)
    /\ (Val(exit_code) = 0) <=> (errors = <<>>)

\* C3: after main has added the reserved key, mappings holds 'AAA-README' with
\* the fixed notice, every other key is a component of the aggregator's result
\* with the team list it was returned with, the emitted JSON object has exactly
\* these members, and a tree without OWNERS files yields the reserved key alone.
C3_OnlyReadmeAdded ==
  /\ (AfterAggregate /\ ~AfterDump) => mappings = Finalize(component_to_team)
  /\ AfterDump =>
       /\ DOMAIN mappings = DOMAIN component_to_team \cup {README_KEY}
       /\ mappings[README_KEY] = _README
       /\ \A k \in DOMAIN mappings \ {README_KEY} :
            mappings[k] = Finalize(component_to_team)[k]
       /\ Range(Val(mapping_file_contents)) = {<<k, mappings[k]>> : k \in DOMAIN mappings}
       /\ Len(Val(mapping_file_contents)) = Cardinality(DOMAIN mappings)
       /\ (\A d \in Dirs(tree) : ~tree.file[d].present) => DOMAIN mappings = {README_KEY}

C3_Witness ==
  /\ pc = "done"
  /\ DOMAIN mappings = {README_KEY, "Blink", "Tools>Test"}
  /\ mappings["Blink"] = <<"a@x.com", "b@x.com">>

StatLineTotal(l) ==
  IF l.kind \in {"stat_component", "stat_team_component"} THEN stats[K_COUNT]
  ELSE stats[K_COUNT_D][l.depth + 1]

PctLines ==
  LinesOf({"stat_component", "stat_team_component",
           "stat_depth_component", "stat_depth_team_component"})

\* C4: every percentage display_stat prints is "N/A" exactly when its total
\* (the overall total, or that depth's total) is zero, and is otherwise
\* 100 * count / total to two decimals; display_stat never fails.
C4_PercentageOrNA ==
  /\ pc # "crashed"
  /\ \A i \in DOMAIN PctLines :
       LET l == PctLines[i]
           total == StatLineTotal(l)
       IN /\ l.pct.na <=> (total = 0)
          /\ ~l.pct.na =>
               /\ 2 * (l.pct.hundredths * total - 10000 * l.n) <= total
               /\ 2 * (10000 * l.n - l.pct.hundredths * total) <= total

C4_Witness ==
  /\ AfterStat
  /\ \E i \in DOMAIN PctLines :
       PctLines[i].kind = "stat_depth_component" /\ PctLines[i].pct.na
  /\ \E i \in DOMAIN PctLines :
       /\ PctLines[i].kind = "stat_team_component"
       /\ PctLines[i].pct = [na |-> FALSE, hundredths |-> 3333]
  /\ \E i \in DOMAIN PctLines :
       /\ PctLines[i].kind = "stat_depth_component"
       /\ PctLines[i].pct = [na |-> FALSE, hundredths |-> 5000]

\* The depths display_stat printed, in the order printed.
PrintedDepths ==
  LET ls == LinesOf({"stat_depth_total"}) IN [i \in DOMAIN ls |-> ls[i].depth]
PrintedDepthLines ==
  LinesOf({"stat_depth_total", "stat_depth_component", "stat_depth_team_component"})
UpTo(n) == [i \in 1..n |-> i - 1]
Buckets == Len(stats[K_COUNT_D])
Min(a, b) == IF a < b THEN a ELSE b
Displayed == AfterStat /\ StatRequested(options)

\* Each printed depth has its three lines, in order.
ThreeLinesPerDepth ==
  /\ Len(PrintedDepthLines) = 3 * Len(PrintedDepths)
  /\ \A i \in DOMAIN PrintedDepths :
       /\ PrintedDepthLines[3 * i - 2].kind = "stat_depth_total"
       /\ PrintedDepthLines[3 * i - 1].kind = "stat_depth_component"
       /\ PrintedDepthLines[3 * i].kind = "stat_depth_team_component"
       /\ \A j \in {3 * i - 2, 3 * i - 1, 3 * i} : PrintedDepthLines[j].depth = i - 1

RECURSIVE NearestTeam(_, _)
\* The TEAM of the nearest directory, from d upwards, that declares one.
NearestTeam(t, d) ==
  IF d = 0 THEN NoTag
  ELSE IF t.file[d].present /\ t.file[d].team \in Teams THEN t.file[d].team
  ELSE NearestTeam(t, t.parent[d])

RECURSIVE NearestComponent(_, _)
\* The COMPONENT of the nearest directory, from d upwards, that declares one.
NearestComponent(t, d) ==
  IF d = 0 THEN NoTag
  ELSE IF t.file[d].present /\ t.file[d].component \in Components
       THEN t.file[d].component
  ELSE NearestComponent(t, t.parent[d])

\* C6: the resolved state of every directory entered is, per tag, the
\* directory's own tag if it declares one and else that of its nearest
\* ancestor declaring one, else absent; the stack holds the resolved states of
\* the current directory and its ancestors, so a sibling entered after a
\* directory was left inherits from the parent again.
C6_NearestAncestorWins ==
  /\ DOMAIN resolved = visited
  /\ \A d \in DOMAIN resolved :
       /\ resolved[d].team = NearestTeam(tree, d)
       /\ resolved[d].component = NearestComponent(tree, d)
  /\ \A i \in DOMAIN stack :
       /\ stack[i].state = resolved[stack[i].dir]
       /\ tree.parent[stack[i].dir] = (IF i = 1 THEN 0 ELSE stack[i - 1].dir)

C6_Witness ==
  /\ tree.file[1] = [present |-> TRUE, team |-> NoTag, component |-> "Tools>Test",
                     nearMiss |-> FALSE]
  /\ tree.file[2] = [present |-> TRUE, team |-> "a@x.com", component |-> NoTag,
                     nearMiss |-> FALSE]
  /\ tree.file[4].component = "Blink"
  /\ 4 \in visited
  /\ Len(stack) = 2
  /\ stack[2].dir = 3
  /\ resolved[2] = [team |-> "a@x.com", component |-> "Tools>Test"]
  /\ resolved[4] = [team |-> "a@x.com", component |-> "Blink"]
  /\ resolved[3] = [team |-> NoTag, component |-> "Tools>Test"]

\* C7: the total file count is the sum of the per-depth totals, the
\* component-only and team-and-component counts are the sums of their
\* per-depth buckets, component-only + team-and-component <= total, and the
\* three per-depth lists have one length, so display_stat reads no index out
\* of range.
C7_CountersConsistent ==
  /\ stats[K_COUNT] = SumSeq(stats[K_COUNT_D])
  /\ stats[K_COMP] = SumSeq(stats[K_COMP_D])
  /\ stats[K_TEAM_COMP] = SumSeq(stats[K_TEAM_COMP_D])
  /\ stats[K_COMP] + stats[K_TEAM_COMP] <= stats[K_COUNT]
  /\ Len(stats[K_COMP_D]) = Len(stats[K_COUNT_D])
  /\ Len(stats[K_TEAM_COMP_D]) = Len(stats[K_COUNT_D])
  /\ pc # "crashed"
  /\ Displayed => \A i \in DOMAIN PrintedDepths :
       DepthReadable(stats, PrintedDepths[i])

C7_Witness ==
  /\ Displayed
  /\ stats[K_COUNT] = 3
  /\ stats[K_COMP] = 1
  /\ stats[K_TEAM_COMP] = 1
  /\ stats[K_COUNT_D] = <<1, 1, 1>>
  /\ Len(PrintedDepths) = 3

\* The (component, team) pairs the directories with an OWNERS file resolve to.
Associations(t) ==
  { <<NearestComponent(t, d), NearestTeam(t, d)>> :
      d \in {e \in Dirs(t) : /\ t.file[e].present
                             /\ NearestComponent(t, e) # NoTag
                             /\ NearestTeam(t, e) # NoTag} }

StrictlyIncreasing(s) == \A i \in 1..(Len(s) - 1) : StrLess(s[i], s[i + 1])

\* C8: the serialized mapping is determined by the set of (component, team)
\* associations of the tree alone, whatever the order of the walk: its keys
\* are the components and the reserved key, in sorted order, and each
\* component's list holds exactly its teams, sorted and without duplicates.
C8_OutputDeterminedByAssociations ==
  AfterDump =>
    LET json == Val(mapping_file_contents)
        A == Associations(tree)
    IN /\ StrictlyIncreasing([i \in DOMAIN json |-> json[i][1]])
       /\ {json[i][1] : i \in DOMAIN json} = {a[1] : a \in A} \cup {README_KEY}
       /\ \A i \in DOMAIN json :
            IF json[i][1] = README_KEY THEN json[i][2] = _README
            ELSE /\ StrictlyIncreasing(json[i][2])
                 /\ Range(json[i][2]) = {a[2] : a \in {b \in A : b[1] = json[i][1]}}

C8_Witness ==
  /\ pc = "done"
  /\ tree.file[2].team = "b@x.com"
  /\ tree.file[3].team = "a@x.com"
  /\ tree.file[4].component = "Blink"
  /\ Val(mapping_file_contents) =
       << <<README_KEY, _README>>, <<"Blink", <<"b@x.com">> >>,
          <<"Tools>Test", <<"a@x.com", "b@x.com">> >> >>

\* C9: warnings are printed exactly when verbose is set and every error is
\* always printed; a second run that differs from the first only in the
\* verbose flag and in its warnings ends with the same exit code, the same
\* files written and the same mapping JSON; and no run stops before its last
\* step.
C9_WarningsInformational ==
  /\ AfterWarnings => PrintedWarnings = (IF TruthyFlag(options.verbose) THEN warnings ELSE <<>>)
  /\ ~AfterWarnings => PrintedWarnings = <<>>
  /\ AfterErrors => LinesOf({"error"}) = errors
  /\ (pc = "done" /\ run = 2) => Outcome = Val(prev).outcome
  /\ pc # "crashed"
  /\ pc # "done" => ENABLED Next

C9_Witness ==
  /\ pc = "done"
  /\ run = 2
  /\ Val(prev).warned = 0
  /\ Len(PrintedWarnings) = 2
  /\ Len(errors) = 1
  /\ FileWritten = FALSE
  /\ WriteRequested(options)

KindRank(k) ==
  CASE k = "warning" -> 1
    [] k = "error" -> 2
    [] k = "notice" -> 4
    [] k = "mapping" -> 5
    [] OTHER -> 3

\* C10: the mapping goes to at most one destination: to standard output when
\* writing was not requested, to the file when writing was requested and there
\* are no errors, to standard output when writing was requested, errors exist
\* and force_print is set, and nowhere otherwise; and the output is ordered
\* warnings, then errors, then coverage statistics, then the mapping.
C10_OneDestinationInOrder ==
  /\ \A i \in 1..(Len(stdout) - 1) : KindRank(stdout[i].kind) <= KindRank(stdout[i + 1].kind)
  /\ Len(LinesOf({"mapping"})) <= 1
  /\ Cardinality({n \in FileNames : files[n] # None}) <= 1
  /\ ~(MappingPrinted /\ FileWritten)
  /\ ~AfterOutput => (~MappingPrinted /\ ~FileWritten)
  /\ AfterOutput =>
       LET toStdout == LinesOf({"mapping"}) = <<[kind |-> "mapping", json |-> Val(mapping_file_contents)]>>
           target == IF options.output_file \in {None, Some("")} THEN DEFAULT_FILE
                     ELSE Val(options.output_file)
           toFile == files = [n \in FileNames |-> IF n = target THEN mapping_file_contents ELSE None]
       IN CASE ~WriteRequested(options) -> toStdout /\ ~FileWritten
            [] WriteRequested(options) /\ ~HasErrors -> toFile /\ ~MappingPrinted
            [] WriteRequested(options) /\ HasErrors /\ TruthyFlag(options.force_print) ->
                 toStdout /\ ~FileWritten
            [] OTHER -> ~MappingPrinted /\ ~FileWritten

C10_Witness ==
  /\ pc = "done"
  /\ WriteRequested(options)
  /\ HasErrors
  /\ ~TruthyFlag(options.force_print)
  /\ PrintedWarnings # <<>>
  /\ LinesOf({"stat_total"}) # <<>>
  /\ LinesOf({"notice"}) # <<>>
  /\ ~MappingPrinted
  /\ ~FileWritten

====
